---------------------------- MODULE Spec2Model ----------------------------
(***************************************************************************)
(* Model of src/app.py, the DML-OpenProblem interactive platform.          *)
(*                                                                         *)
(* Text is a sequence of Unicode code points, a file on disk a sequence of *)
(* bytes.  The specifications of the module, one per component:            *)
(*   Spec         file loader/saver and problem scaffolder, one session    *)
(*   SpecRace     two sessions loading, editing and saving one file        *)
(*   SpecScan     directory scanner (get_problem_directories)              *)
(*   SpecRender   content renderer (render_math_content)                   *)
(*   SpecNotebook notebook executor (execute_notebook) and its caller      *)
(* Each leaves the variables of the other components unchanged.            *)
(***************************************************************************)
EXTENDS Integers, Sequences, FiniteSets, TLC

VARIABLES
    dirs,       \* names of the directories that exist under PROBLEMS_DIR
    disk,       \* path -> bytes of the file, or Absent
    sess,       \* session -> [path, editor, notice]: one browser session each
    lastWrite,  \* history: path -> the last write of the path
    rootKind,   \* what PROBLEMS_DIR is: "dir", "missing" or "file"
    listing,    \* what os.listdir(PROBLEMS_DIR) enumerates: <<[name, isdir]>>
    scan,       \* outcome of get_problem_directories
    content,    \* render_math_content: the content argument
    file_ext,   \* render_math_content: the file_ext argument
    preview,    \* what render_math_content hands to components.html
    nbLoad,     \* how loading notebook.py goes
    script,     \* the top-level statements of notebook.py
    nb,         \* the frame of execute_notebook: [pc, ip, buffer]
    written,    \* history: what the script wrote to sys.stdout in this run
    nbOut,      \* how execute_notebook left: returned text or raised error
    ui          \* what main's "Run Notebook" handler showed

fileVars == <<dirs, disk, sess, lastWrite>>
scanVars == <<rootKind, listing, scan>>
renderVars == <<content, file_ext, preview>>
nbVars == <<nbLoad, script, nb, written, nbOut, ui>>
vars == <<fileVars, scanVars, renderVars, nbVars>>

(***************************************************************************)
(* Sequence helpers.                                                       *)
(***************************************************************************)
IsPrefix(p, s) == Len(p) <= Len(s) /\ SubSeq(s, 1, Len(p)) = p

Contains(s, p) ==
    \E i \in 0..(Len(s) - Len(p)) : SubSeq(s, i + 1, i + Len(p)) = p

RECURSIVE Flatten(_)
Flatten(ss) == IF ss = <<>> THEN <<>> ELSE Head(ss) \o Flatten(Tail(ss))

(***************************************************************************)
(* Text encoding, as open(..., encoding='utf-8') with newline=None does it.*)
(***************************************************************************)
\* the value of a path that holds no file (no byte is negative)
Absent == <<-1>>

IsSurrogate(c) == c >= 55296 /\ c <= 57343

\* str.encode('utf-8') of one code point (BMP only)
EncodeChar(c) ==
    IF c < 128 THEN <<c>>
    ELSE IF c < 2048 THEN <<192 + (c \div 64), 128 + (c % 64)>>
    ELSE <<224 + (c \div 4096), 128 + ((c \div 64) % 64), 128 + (c % 64)>>

Encodable(t) == \A i \in 1..Len(t) : ~IsSurrogate(t[i])

Encode(t) == Flatten([i \in 1..Len(t) |-> EncodeChar(t[i])])

IsCont(b) == b >= 128 /\ b <= 191

\* bytes.decode('utf-8'): [ok, text]; ok is FALSE on UnicodeDecodeError
RECURSIVE Decode(_)
Decode(b) ==
    IF b = <<>> THEN [ok |-> TRUE, text |-> <<>>]
    ELSE IF b[1] < 128 THEN
        LET r == Decode(Tail(b))
        IN  [ok |-> r.ok, text |-> <<b[1]>> \o r.text]
    ELSE IF b[1] >= 194 /\ b[1] <= 223 /\ Len(b) >= 2 /\ IsCont(b[2]) THEN
        LET r == Decode(SubSeq(b, 3, Len(b)))
        IN  [ok |-> r.ok,
             text |-> <<(b[1] - 192) * 64 + (b[2] - 128)>> \o r.text]
    ELSE IF b[1] >= 224 /\ b[1] <= 239 /\ Len(b) >= 3
            /\ IsCont(b[2]) /\ IsCont(b[3]) THEN
        LET c == (b[1] - 224) * 4096 + (b[2] - 128) * 64 + (b[3] - 128)
            r == Decode(SubSeq(b, 4, Len(b)))
        IN  [ok |-> r.ok /\ c >= 2048 /\ ~IsSurrogate(c),
             text |-> <<c>> \o r.text]
    ELSE [ok |-> FALSE, text |-> <<>>]

\* os.linesep of the host (POSIX)
linesep == <<10>>

\* text-mode write with newline=None: every "\n" becomes os.linesep
RECURSIVE WriteNewlines(_)
WriteNewlines(t) ==
    IF t = <<>> THEN <<>>
    ELSE (IF Head(t) = 10 THEN linesep ELSE <<Head(t)>>)
         \o WriteNewlines(Tail(t))

\* text-mode read with newline=None (universal newlines): "\r\n" and a lone
\* "\r" are both returned as "\n"
RECURSIVE ReadNewlines(_)
ReadNewlines(t) ==
    IF t = <<>> THEN <<>>
    ELSE IF Head(t) = 13 /\ Len(t) >= 2 /\ t[2] = 10
        THEN <<10>> \o ReadNewlines(SubSeq(t, 3, Len(t)))
    ELSE IF Head(t) = 13 THEN <<10>> \o ReadNewlines(Tail(t))
    ELSE <<Head(t)>> \o ReadNewlines(Tail(t))

(***************************************************************************)
(* Python's "except Exception": it catches the classes derived from        *)
(* Exception; SystemExit, KeyboardInterrupt and GeneratorExit derive from  *)
(* BaseException only and pass through it.                                 *)
(***************************************************************************)
ExceptionClasses ==
    {"OSError", "UnicodeDecodeError", "UnicodeEncodeError", "ImportError",
     "SyntaxError", "ValueError", "ZeroDivisionError"}

\* a handler narrowed to "except OSError"
except_OSError(e) == e = "OSError"

except_Exception(e) == e \in ExceptionClasses

(***************************************************************************)
(* load_file_content / save_file_content as functions of the disk.         *)
(* d: the disk, ds: the existing directories, p: the path <<dir, file>>.   *)
(* fault: an I/O failure injected by the environment: "none", "open" (the  *)
(* open() call raises OSError, the file is untouched) or "write" (the      *)
(* write raises OSError after open() truncated the file).                  *)
(***************************************************************************)
Faults == {"none", "open", "write"}

\* the exception the body of load_file_content's try raises, or "none"
LoadException(d, ds, p, fault) ==
    IF fault # "none" \/ p[1] \notin ds \/ d[p] = Absent THEN "OSError"
    ELSE IF ~Decode(d[p]).ok THEN "UnicodeDecodeError"
    ELSE "none"

\* [value, reported, raised]: the returned text, the exception st.error was
\* given, and the exception that left the function
load_file_content(d, ds, p, fault) ==
    LET e == LoadException(d, ds, p, fault)
    IN  IF e = "none"
        THEN [value |-> ReadNewlines(Decode(d[p]).text),
              reported |-> "none", raised |-> "none"]
        ELSE IF except_Exception(e)
        THEN [value |-> <<>>, reported |-> e, raised |-> "none"]
        ELSE [value |-> <<>>, reported |-> "none", raised |-> e]

\* the exception the body of save_file_content's try raises, or "none"
SaveException(ds, p, t, fault) ==
    IF fault = "open" \/ p[1] \notin ds THEN "OSError"
    ELSE IF ~Encodable(t) THEN "UnicodeEncodeError"
    ELSE IF fault = "write" THEN "OSError"
    ELSE "none"

\* the file opened with mode 'a' instead of 'w': the text is appended
SavedBytesAppend(d, ds, p, t, fault) ==
    IF fault = "open" \/ p[1] \notin ds \/ ~Encodable(t) \/ fault = "write"
    THEN d[p]
    ELSE (IF d[p] = Absent THEN <<>> ELSE d[p]) \o Encode(WriteNewlines(t))

\* what the file holds after open(file_path, 'w') and f.write(content)
SavedBytes(d, ds, p, t, fault) ==
    IF fault = "open" \/ p[1] \notin ds THEN d[p]
    ELSE IF ~Encodable(t) \/ fault = "write" THEN <<>>
    ELSE Encode(WriteNewlines(t))

\* [bytes, reported, raised]: the file afterwards, what was reported
\* ("success" for st.success, else the exception given to st.error), and the
\* exception that left the function
save_file_content(d, ds, p, t, fault) ==
    LET e == SaveException(ds, p, t, fault)
    IN  [bytes |-> SavedBytes(d, ds, p, t, fault),
         reported |-> IF e = "none" THEN "success"
                      ELSE IF except_Exception(e) THEN e ELSE "none",
         raised |-> IF e = "none" \/ except_Exception(e) THEN "none" ELSE e]

(***************************************************************************)
(* create_new_problem                                                      *)
(***************************************************************************)
\* str(n) for n >= 0, as the f-string formats problem_number
RECURSIVE IntToStr(_)
IntToStr(n) ==
    IF n < 10 THEN <<48 + n>> ELSE IntToStr(n \div 10) \o <<48 + (n % 10)>>

\* str.replace(old, new) for single characters
Replace(t, old, new) == [i \in 1..Len(t) |-> IF t[i] = old THEN new ELSE t[i]]

\* f"{problem_number}_{problem_name.replace(' ', '_')}"
dir_name(n, name) == IntToStr(n) \o <<95>> \o Replace(name, 32, 95)

\* "# Problem Description\n\n## Overview\n\n## Examples\n"
LearnTemplate ==
    <<35, 32, 80, 114, 111, 98, 108, 101, 109, 32, 68, 101, 115, 99, 114,
      105, 112, 116, 105, 111, 110, 10, 10, 35, 35, 32, 79, 118, 101, 114,
      118, 105, 101, 119, 10, 10, 35, 35, 32, 69, 120, 97, 109, 112, 108,
      101, 115, 10>>

\* "def solution():\n    pass\n\n# Test cases\n"
SolutionTemplate ==
    <<100, 101, 102, 32, 115, 111, 108, 117, 116, 105, 111, 110, 40, 41, 58,
      10, 32, 32, 32, 32, 112, 97, 115, 115, 10, 10, 35, 32, 84, 101, 115,
      116, 32, 99, 97, 115, 101, 115, 10>>

\* Faults of the scaffold: "none", or the call that raises OSError
CreateFaults == {"none", "makedirs", "learn", "solution"}

\* open(path, 'w') and f.write(template) inside create_new_problem
WriteTemplate(template) == Encode(WriteNewlines(template))

LearnBytes == WriteTemplate(LearnTemplate)

SolutionBytes == WriteTemplate(SolutionTemplate)

\* a scaffold that keeps a learn.md or solution.py that is already there
create_keep_existing(d, ds, n, name, fault) ==
    LET dn == dir_name(n, name)
        keep(p, b) == IF d[p] = Absent THEN b ELSE d[p]
    IN  IF n = 0 \/ name = <<>> \/ fault # "none"
        THEN [dirs |-> ds, disk |-> d, reported |-> "none"]
        ELSE [dirs |-> ds \cup {dn},
              disk |-> [d EXCEPT ![<<dn, "learn.md">>] =
                                     keep(<<dn, "learn.md">>, LearnBytes),
                                 ![<<dn, "solution.py">>] =
                                     keep(<<dn, "solution.py">>, SolutionBytes)],
              reported |-> "success"]

\* [dirs, disk, reported]: the directories and the disk afterwards and what
\* was shown: "success", the exception given to st.error, or "none" when the
\* guard "if problem_number and problem_name" is false
create_new_problem(d, ds, n, name, fault) ==
    LET dn == dir_name(n, name)
    IN  IF n = 0 \/ name = <<>>
        THEN [dirs |-> ds, disk |-> d, reported |-> "none"]
        ELSE IF fault = "makedirs"
        THEN [dirs |-> ds, disk |-> d, reported |-> "OSError"]
        ELSE IF fault = "learn"
        THEN [dirs |-> ds \cup {dn}, disk |-> d, reported |-> "OSError"]
        ELSE IF fault = "solution"
        THEN [dirs |-> ds \cup {dn},
              disk |-> [d EXCEPT ![<<dn, "learn.md">>] = LearnBytes],
              reported |-> "OSError"]
        ELSE [dirs |-> ds \cup {dn},
              disk |-> [d EXCEPT ![<<dn, "learn.md">>] = LearnBytes,
                                 ![<<dn, "solution.py">>] = SolutionBytes],
              reported |-> "success"]

(***************************************************************************)
(* The file state machine: browser sessions that open, edit and save       *)
(* content files and scaffold problems.                                    *)
(***************************************************************************)
Sessions == {1, 2}

\* the st.number_input(min_value=1, step=1) value offered to the scaffold
ProblemNumbers == {42}

\* st.text_input values offered: "Two Sum", "Two_Sum" and the empty name
ProblemNames ==
    {<<84, 119, 111, 32, 83, 117, 109>>, <<84, 119, 111, 95, 83, 117, 109>>,
     <<>>}

FileNames == {"learn.md", "solution.py"}

DirNames ==
    {dir_name(n, name) : n \in ProblemNumbers, name \in ProblemNames \ {<<>>}}

Paths == DirNames \X FileNames

\* texts typed into the editor: "", "e-acute \r b" and a lone surrogate
\* (a str that UTF-8 cannot encode)
EditTexts == {<<>>, <<233, 13, 98>>, <<55296>>}

\* what a pre-existing learn.md may hold: not UTF-8, or "a\nb"
InitialBytes == {<<255>>, <<97, 10, 98>>}

NoPath == <<>>
NoWrite == [by |-> 0, kind |-> "none", text |-> <<>>, over |-> "none"]
FreshSession ==
    [path |-> NoPath, editor |-> <<>>, notice |-> <<"none", "none", "none">>]

FileInit ==
    /\ \E ds \in SUBSET DirNames :
        /\ dirs = ds
        /\ \E f \in [ds -> InitialBytes \cup {Absent}] :
            disk = [p \in Paths |->
                       IF p[1] \in ds /\ p[2] = "learn.md"
                       THEN f[p[1]] ELSE Absent]
    /\ sess = [s \in Sessions |-> FreshSession]
    /\ lastWrite = [p \in Paths |-> NoWrite]

\* main, Problem Browser: the selected file is loaded into the editor
Open(s, p, fault) ==
    LET r == load_file_content(disk, dirs, p, fault)
    IN  /\ sess' = [sess EXCEPT ![s] =
                       [path |-> p, editor |-> r.value,
                        notice |-> <<"load", r.reported, r.raised>>]]
        /\ UNCHANGED <<dirs, disk, lastWrite, scanVars, renderVars, nbVars>>

\* the user types in the st_ace editor
Edit(s, t) ==
    /\ sess[s].path # NoPath
    /\ sess' = [sess EXCEPT ![s].editor = t,
                            ![s].notice = <<"edit", "none", "none">>]
    /\ UNCHANGED <<dirs, disk, lastWrite, scanVars, renderVars, nbVars>>

\* main, Problem Browser: "Save Changes" is pressed
Save(s, fault) ==
    /\ sess[s].path # NoPath
    /\ LET p == sess[s].path
           t == sess[s].editor
           r == save_file_content(disk, dirs, p, t, fault)
       IN  /\ disk' = [disk EXCEPT ![p] = r.bytes]
           /\ sess' = [sess EXCEPT ![s].notice =
                                       <<"save", r.reported, r.raised>>]
           /\ lastWrite' = [lastWrite EXCEPT ![p] =
                  IF r.reported = "success"
                  THEN [by |-> s, kind |-> "save", text |-> t,
                        over |-> @.kind]
                  ELSE IF r.bytes # disk[p]
                  THEN [by |-> s, kind |-> "failed", text |-> <<>>,
                        over |-> @.kind]
                  ELSE @]
           /\ UNCHANGED <<dirs, scanVars, renderVars, nbVars>>

\* main, Create New Problem: "Create Problem" is pressed
Create(s, n, name, fault) ==
    LET r == create_new_problem(disk, dirs, n, name, fault)
    IN  /\ dirs' = r.dirs
        /\ disk' = r.disk
        /\ sess' = [sess EXCEPT ![s].notice =
                                    <<"create", r.reported, "none">>]
        /\ lastWrite' = [p \in Paths |->
               IF r.disk[p] # disk[p] \/ (r.reported = "success"
                                          /\ p[1] = dir_name(n, name))
               THEN [by |-> s, kind |-> "scaffold", text |-> <<>>,
                     over |-> lastWrite[p].kind]
               ELSE lastWrite[p]]
        /\ UNCHANGED <<scanVars, renderVars, nbVars>>

\* the session of the single-user specification
Solo == {1}

FileIdle ==
    /\ dirs = {}
    /\ disk = [p \in Paths |-> Absent]
    /\ sess = [s \in Sessions |-> FreshSession]
    /\ lastWrite = [p \in Paths |-> NoWrite]

ScanIdle ==
    /\ rootKind = "dir"
    /\ listing = <<>>
    /\ scan = [status |-> "idle", value |-> <<>>, exc |-> "none"]

RenderIdle ==
    /\ content = <<>>
    /\ file_ext = ".html"
    /\ preview = [status |-> "idle", html |-> <<>>]

NotebookIdle ==
    /\ nbLoad = "ok"
    /\ script = <<>>
    /\ nb = [pc |-> "idle", ip |-> 1, buffer |-> <<>>]
    /\ written = <<>>
    /\ nbOut = [status |-> "none", kind |-> "none", text |-> <<>>]
    /\ ui = <<>>

Init == FileInit /\ ScanIdle /\ RenderIdle /\ NotebookIdle

Next ==
    \/ \E s \in Solo, p \in Paths, fault \in {"none", "open"} :
           Open(s, p, fault)
    \/ \E s \in Solo, t \in EditTexts : Edit(s, t)
    \/ \E s \in Solo, fault \in Faults : Save(s, fault)
    \/ \E s \in Solo, n \in ProblemNumbers, name \in ProblemNames,
          fault \in CreateFaults : Create(s, n, name, fault)

Spec == Init /\ [][Next]_vars

(***************************************************************************)
(* Properties of the scaffolder and of the loader/saver (Spec).            *)
(***************************************************************************)
\* "# Problem Description"
LearnHeading ==
    <<35, 32, 80, 114, 111, 98, 108, 101, 109, 32, 68, 101, 115, 99, 114,
      105, 112, 116, 105, 111, 110>>

\* "def solution():"
SolutionDef ==
    <<100, 101, 102, 32, 115, 111, 108, 117, 116, 105, 111, 110, 40, 41, 58>>

\* "42_Two_Sum", written out
TwoSumDir == <<52, 50, 95, 84, 119, 111, 95, 83, 117, 109>>

CreateSucceeded(s) == sess[s].notice = <<"create", "success", "none">>

\* C2: after a scaffold of 42 and "Two Sum" (or "Two_Sum") reports success,
\* the directory 42_Two_Sum exists and its learn.md and solution.py hold
\* exactly the templates, whatever the directory held before.
C2_ScaffoldWritesTemplates ==
    \A s \in Solo : CreateSucceeded(s) =>
        /\ TwoSumDir \in dirs
        /\ Decode(disk[<<TwoSumDir, "learn.md">>]) =
               [ok |-> TRUE, text |-> LearnTemplate]
        /\ Decode(disk[<<TwoSumDir, "solution.py">>]) =
               [ok |-> TRUE, text |-> SolutionTemplate]
        /\ IsPrefix(LearnHeading, Decode(disk[<<TwoSumDir, "learn.md">>]).text)
        /\ Contains(Decode(disk[<<TwoSumDir, "solution.py">>]).text,
                    SolutionDef)

\* a second scaffold has just overwritten a learn.md that held a saved edit
C2_Witness ==
    /\ CreateSucceeded(1)
    /\ lastWrite[<<TwoSumDir, "learn.md">>].kind = "scaffold"
    /\ lastWrite[<<TwoSumDir, "learn.md">>].over = "save"
    /\ disk[<<TwoSumDir, "learn.md">>] = LearnBytes

\* s has just loaded p and the load reported no failure
JustLoaded(s, p) ==
    /\ sess'[s] # sess[s]
    /\ sess'[s].path = p
    /\ sess'[s].notice = <<"load", "none", "none">>

\* C3: if save_file_content(p, T) succeeded and nothing wrote p since, then
\* load_file_content(p) returns exactly T.
C3_RoundTrip ==
    [][\A s \in Sessions, p \in Paths :
          (lastWrite[p].kind = "save" /\ JustLoaded(s, p))
              => sess'[s].editor = lastWrite[p].text]_vars

\* C8: no exception leaves load_file_content or save_file_content, and a
\* load that failed (I/O or decoding) was reported and returned "".
C8_FailuresStayInside ==
    \A s \in Sessions :
        /\ sess[s].notice[3] = "none"
        /\ (sess[s].notice[1] = "load" /\ sess[s].notice[2] # "none")
               => sess[s].editor = <<>>
        /\ sess[s].notice[1] = "save"
               => sess[s].notice[2] \in
                      {"success", "OSError", "UnicodeEncodeError"}

\* a save has failed after truncating a file, and the load of a file that is
\* not UTF-8 has just been reported and returned ""
C8_Witness ==
    /\ \E p \in Paths : lastWrite[p].kind = "failed"
    /\ sess[1].notice = <<"load", "UnicodeDecodeError", "none">>
    /\ sess[1].editor = <<>>

(***************************************************************************)
(* Two sessions editing one content file: no scaffold, one path.           *)
(***************************************************************************)
RacePath == <<TwoSumDir, "learn.md">>

RaceInit ==
    /\ dirs = {TwoSumDir}
    /\ \E b \in InitialBytes \cup {LearnBytes} :
           disk = [p \in Paths |-> IF p = RacePath THEN b ELSE Absent]
    /\ sess = [s \in Sessions |-> FreshSession]
    /\ lastWrite = [p \in Paths |-> NoWrite]
    /\ ScanIdle /\ RenderIdle /\ NotebookIdle

RaceNext ==
    \/ \E s \in Sessions, fault \in {"none", "open"} : Open(s, RacePath, fault)
    \/ \E s \in Sessions, t \in EditTexts : Edit(s, t)
    \/ \E s \in Sessions, fault \in Faults : Save(s, fault)

SpecRace == RaceInit /\ [][RaceNext]_vars

BothSaved(p) ==
    \A s \in Sessions : sess[s].path = p /\ sess[s].notice[1] = "save"

IsDigit(c) == c >= 48 /\ c <= 57

\* the length of the longest run of digits that starts the name: what the
\* greedy \d+ of re.match(r'(\d+)_', dirname) takes
RECURSIVE LeadingDigits(_)
LeadingDigits(name) ==
    IF name # <<>> /\ IsDigit(Head(name))
    THEN 1 + LeadingDigits(Tail(name)) ELSE 0

\* int(match.group(1))
RECURSIVE StrToInt(_)
StrToInt(ds) ==
    IF ds = <<>> THEN 0
    ELSE 10 * StrToInt(SubSeq(ds, 1, Len(ds) - 1)) + (ds[Len(ds)] - 48)

\* a key that took only one digit, as r'(\d)' would
get_number_one_digit(dirname) ==
    IF dirname # <<>> /\ IsDigit(Head(dirname))
    THEN [inf |-> FALSE, n |-> Head(dirname) - 48]
    ELSE [inf |-> TRUE, n |-> 0]

\* get_number: the sort key, the leading integer or float('inf')
get_number(dirname) ==
    LET k == LeadingDigits(dirname)
    IN  IF k >= 1 /\ Len(dirname) > k /\ dirname[k + 1] = 95
        THEN [inf |-> FALSE, n |-> StrToInt(SubSeq(dirname, 1, k))]
        ELSE [inf |-> TRUE, n |-> 0]

\* a < b on keys: int < int, int < inf, never inf < anything
KeyLess(a, b) == ~a.inf /\ (b.inf \/ a.n < b.n)

\* the place of x in a sorted list: after every element that is not greater
RECURSIVE InsertSorted(_, _)
InsertSorted(x, sorted) ==
    IF sorted = <<>> THEN <<x>>
    ELSE IF KeyLess(get_number(x), get_number(Head(sorted)))
    THEN <<x>> \o sorted
    ELSE <<Head(sorted)>> \o InsertSorted(x, Tail(sorted))

\* sorted(problem_dirs, key=get_number): a stable sort
RECURSIVE SortedByNumber(_)
SortedByNumber(names) ==
    IF names = <<>> THEN <<>>
    ELSE InsertSorted(names[Len(names)],
                      SortedByNumber(SubSeq(names, 1, Len(names) - 1)))

\* [d for d in os.listdir(PROBLEMS_DIR) if os.path.isdir(...)]
RECURSIVE DirectoriesOf(_)
DirectoriesOf(entries) ==
    IF entries = <<>> THEN <<>>
    ELSE (IF Head(entries).isdir THEN <<Head(entries).name>> ELSE <<>>)
         \o DirectoriesOf(Tail(entries))

\* [status, value, exc]: os.listdir raises when the root is no directory and
\* nothing in get_problem_directories or main catches it
get_problem_directories(root, entries) ==
    IF root = "missing"
    THEN [status |-> "raised", value |-> <<>>, exc |-> "FileNotFoundError"]
    ELSE IF root = "file"
    THEN [status |-> "raised", value |-> <<>>, exc |-> "NotADirectoryError"]
    ELSE [status |-> "returned",
          value |-> SortedByNumber(DirectoriesOf(entries)), exc |-> "none"]

\* entries enumerated at most
MaxEntries == 4

\* "2_x", "10_y", "02_z", "ab", "3a_c", "7"
EntryNames ==
    {<<50, 95, 120>>, <<49, 48, 95, 121>>, <<48, 50, 95, 122>>, <<97, 98>>,
     <<51, 97, 95, 99>>, <<55>>}

Injective(f) == \A i, j \in DOMAIN f : i # j => f[i] # f[j]

\* the enumerations os.listdir can return: each name once, in any order
Listings ==
    UNION {{l \in [1..n -> [name : EntryNames, isdir : BOOLEAN]] :
               Injective([i \in 1..n |-> l[i].name])} : n \in 0..MaxEntries}

ScanInit ==
    /\ \/ rootKind = "dir" /\ listing \in Listings
       \/ rootKind \in {"missing", "file"} /\ listing = <<>>
    /\ scan = [status |-> "idle", value |-> <<>>, exc |-> "none"]
    /\ FileIdle /\ RenderIdle /\ NotebookIdle

\* main, Problem Browser: problem_dirs = get_problem_directories()
Scan ==
    /\ scan.status = "idle"
    /\ scan' = get_problem_directories(rootKind, listing)
    /\ UNCHANGED <<rootKind, listing, fileVars, renderVars, nbVars>>

SpecScan == ScanInit /\ [][Scan]_vars

\* the name starts with digits followed by an underscore
HasNumberPrefix(name) ==
    \E k \in 1..(Len(name) - 1) :
        /\ \A i \in 1..k : IsDigit(name[i])
        /\ name[k + 1] = 95

\* the integer the digits before the first underscore spell
PrefixNumber(name) ==
    LET k == CHOOSE k \in 1..(Len(name) - 1) :
                 (\A i \in 1..k : IsDigit(name[i])) /\ name[k + 1] = 95
    IN  StrToInt(SubSeq(name, 1, k))

\* where the directory listing returned the name
ListedAt(name) == CHOOSE i \in 1..Len(listing) : listing[i].name = name

SameKey(a, b) ==
    \/ ~HasNumberPrefix(a) /\ ~HasNumberPrefix(b)
    \/ HasNumberPrefix(a) /\ HasNumberPrefix(b)
           /\ PrefixNumber(a) = PrefixNumber(b)

\* C1: the result holds exactly the listed directories, each once; prefixed
\* names come before unprefixed ones, in ascending order of the leading
\* integer; names with equal keys keep the order of the listing.
C1_ScanOrder ==
    scan.status = "returned" =>
        LET r == scan.value
        IN  /\ {r[i] : i \in 1..Len(r)} =
                   {listing[i].name : i \in {j \in 1..Len(listing) :
                                                 listing[j].isdir}}
            /\ Injective(r)
            /\ \A i, j \in 1..Len(r) : i < j =>
                  /\ HasNumberPrefix(r[j]) => HasNumberPrefix(r[i])
                  /\ (HasNumberPrefix(r[i]) /\ HasNumberPrefix(r[j]))
                         => PrefixNumber(r[i]) <= PrefixNumber(r[j])
                  /\ SameKey(r[i], r[j]) => ListedAt(r[i]) < ListedAt(r[j])

\* listed as ab, 10_y, 2_x, 02_z (all directories): returned as 2_x, 02_z
\* (equal keys, listing order), 10_y, ab
C1_Witness ==
    /\ scan.status = "returned"
    /\ listing = <<[name |-> <<97, 98>>, isdir |-> TRUE],
                   [name |-> <<49, 48, 95, 121>>, isdir |-> TRUE],
                   [name |-> <<50, 95, 120>>, isdir |-> TRUE],
                   [name |-> <<48, 50, 95, 122>>, isdir |-> TRUE]>>
    /\ scan.value = <<<<50, 95, 120>>, <<48, 50, 95, 122>>,
                      <<49, 48, 95, 121>>, <<97, 98>>>>

\* C7: when the root does not exist or is not a directory,
\* get_problem_directories returns an empty list and raises no error.
C7_BadRootIsEmptyList ==
    (rootKind # "dir" /\ scan.status # "idle") =>
        (scan.status = "returned" /\ scan.value = <<>>)

(***************************************************************************)
(* render_math_content.  Characters: \ is 92, ( 40, ) 41, [ 91, ] 93,      *)
(* $ 36, x 120.                                                            *)
(***************************************************************************)
\* re.sub of the two-character literal <<a, b>> by repl: leftmost matches,
\* left to right, not overlapping
RECURSIVE ReSub(_, _, _, _)
ReSub(a, b, repl, t) ==
    IF t = <<>> THEN <<>>
    ELSE IF Len(t) >= 2 /\ t[1] = a /\ t[2] = b
    THEN repl \o ReSub(a, b, repl, SubSeq(t, 3, Len(t)))
    ELSE <<Head(t)>> \o ReSub(a, b, repl, Tail(t))

\* the four substitutions, in the order of the code
ReplaceDelimiters(t) ==
    ReSub(92, 93, <<36, 36>>,
          ReSub(92, 91, <<36, 36>>,
                ReSub(92, 41, <<36>>, ReSub(92, 40, <<36>>, t))))

\* the characters of the alphabet that Markdown lets a backslash escape
\* (markdown.Markdown.ESCAPED_CHARS holds \ ( ) [ ] among others)
EscapedChars == {92, 40, 41, 91, 93}

\* Markdown's backslash escapes: a backslash before an escapable character
\* is dropped and the character kept as a literal
RECURSIVE MarkdownInline(_)
MarkdownInline(t) ==
    IF t = <<>> THEN <<>>
    ELSE IF Len(t) >= 2 /\ t[1] = 92 /\ t[2] \in EscapedChars
    THEN <<t[2]>> \o MarkdownInline(SubSeq(t, 3, Len(t)))
    ELSE <<Head(t)>> \o MarkdownInline(Tail(t))

\* markdown.markdown(content) on one line of text without link syntax: the
\* inline conversion, wrapped in <p> and </p>; nothing for empty input
markdown(t) ==
    IF t = <<>> THEN <<>>
    ELSE <<60, 112, 62>> \o MarkdownInline(t) \o <<60, 47, 112, 62>>

\* the content that render_math_content places in the preview's <div>
render_math_content(c, ext) ==
    ReplaceDelimiters(IF ext = ".md" THEN markdown(c) ELSE c)

\* longest content rendered
MaxContent == 5

RenderChars == {92, 40, 41, 91, 93, 120}

Contents == UNION {[1..n -> RenderChars] : n \in 0..MaxContent}

\* no "](" and no "][": the text holds no Markdown link or reference, the
\* only other inline syntax these characters can spell
NoLinkSyntax(t) ==
    \A i \in 1..(Len(t) - 1) : ~(t[i] = 93 /\ t[i + 1] \in {40, 91})

RenderInit ==
    /\ content \in Contents
    /\ file_ext \in {".md", ".html"}
    /\ file_ext = ".md" => NoLinkSyntax(content)
    /\ preview = [status |-> "idle", html |-> <<>>]
    /\ FileIdle /\ ScanIdle /\ NotebookIdle

\* main, Problem Browser, Preview column: render_math_content is called
Render ==
    /\ preview.status = "idle"
    /\ preview' = [status |-> "done",
                   html |-> render_math_content(content, file_ext)]
    /\ UNCHANGED <<content, file_ext, fileVars, scanVars, nbVars>>

SpecRender == RenderInit /\ [][Render]_vars

\* t holds one of \( \) \[ \]
HasDelimiter(t) ==
    \E i \in 1..(Len(t) - 1) : t[i] = 92 /\ t[i + 1] \in {40, 41, 91, 93}

\* C9: for either tag, input containing \(x\) yields content containing $x$,
\* input containing \[x\] yields content containing $$x$$, and no \( \) \[ \]
\* is left in the rewritten content.
C9_DelimitersRewritten ==
    preview.status = "done" =>
        /\ Contains(content, <<92, 40, 120, 92, 41>>)
               => Contains(preview.html, <<36, 120, 36>>)
        /\ Contains(content, <<92, 91, 120, 92, 93>>)
               => Contains(preview.html, <<36, 36, 120, 36, 36>>)
        /\ ~HasDelimiter(preview.html)

\* the statement of C9 for the .html tag alone, where no Markdown conversion
\* runs before the substitutions
C9_HtmlOnly == file_ext = ".html" => C9_DelimitersRewritten

(***************************************************************************)
(* execute_notebook and the "Run Notebook" handler of main.  Text is a     *)
(* sequence of the pieces written, an error message a sequence of parts.   *)
(***************************************************************************)
\* top-level statements of a notebook.py: print("hello"), print("world"),
\* sys.stderr.write("oops"), raise ValueError("boom"), sys.exit("bye")
Statements ==
    {[op |-> "print", arg |-> "hello"], [op |-> "print", arg |-> "world"],
     [op |-> "stderr", arg |-> "oops"],
     [op |-> "raise", arg |-> "ValueError"],
     [op |-> "raise", arg |-> "SystemExit"]}

\* longest script run
MaxScript == 3

Scripts == UNION {[1..n -> Statements] : n \in 0..MaxScript}

\* how loading goes: fine; spec_from_file_location returns None; the spec
\* has no loader; notebook.py is gone when exec_module reads it; it does
\* not compile
LoadOutcomes == {"ok", "no_spec", "no_loader", "missing", "syntax"}

\* str(e) of the exceptions that occur
Description(exc) ==
    CASE exc = "ValueError" -> "boom"
      [] exc = "SystemExit" -> "bye"
      [] exc = "ImportError" -> "Could not load spec or module"
      [] exc = "OSError" -> "No such file or directory"
      [] exc = "SyntaxError" -> "invalid syntax"
      [] OTHER -> ""

\* stdout is not redirected: what the script prints is not captured
print_uncaptured(buffer, text) == buffer

\* print(text) under contextlib.redirect_stdout(buffer)
print_captured(buffer, text) == buffer \o <<text, "\n">>

\* how a call of execute_notebook ends when exc is raised inside its try:
\* "except Exception" wraps it; any other exception leaves as it is
Raised(exc) ==
    IF except_Exception(exc)
    THEN [status |-> "raised", kind |-> "Exception",
          text |-> <<"Error executing notebook: ", Description(exc)>>]
    ELSE [status |-> "raised", kind |-> exc, text |-> <<Description(exc)>>]

\* the frame of execute_notebook and its local buffer end with the call
NoFrame == [pc |-> "done", ip |-> 1, buffer |-> <<>>]

NotebookInit ==
    /\ nbLoad \in LoadOutcomes
    /\ script \in Scripts
    /\ nbLoad # "ok" => script = <<>>
    /\ nb = [pc |-> "idle", ip |-> 1, buffer |-> <<>>]
    /\ written = <<>>
    /\ nbOut = [status |-> "none", kind |-> "none", text |-> <<>>]
    /\ ui = <<>>
    /\ FileIdle /\ ScanIdle /\ RenderIdle

\* main: "Run Notebook" is pressed and execute_notebook is entered
RunNotebook ==
    /\ nb.pc = "idle"
    /\ nb' = [nb EXCEPT !.pc = "loading"]
    /\ UNCHANGED <<nbLoad, script, written, nbOut, ui, fileVars, scanVars,
                   renderVars>>

\* spec_from_file_location, module_from_spec, the two ImportError checks,
\* buffer = StringIO() and the entry of redirect_stdout
LoadModule ==
    /\ nb.pc = "loading"
    /\ IF nbLoad \in {"no_spec", "no_loader"}
       THEN /\ nbOut' = Raised("ImportError")
            /\ nb' = NoFrame
       ELSE /\ nb' = [pc |-> "executing", ip |-> 1, buffer |-> <<>>]
            /\ UNCHANGED nbOut
    /\ UNCHANGED <<nbLoad, script, written, ui, fileVars, scanVars,
                   renderVars>>

\* spec.loader.exec_module(module) cannot read or compile the file
ExecFails ==
    /\ nb.pc = "executing"
    /\ nbLoad \in {"missing", "syntax"}
    /\ nbOut' = Raised(IF nbLoad = "missing" THEN "OSError"
                       ELSE "SyntaxError")
    /\ nb' = NoFrame
    /\ UNCHANGED <<nbLoad, script, written, ui, fileVars, scanVars,
                   renderVars>>

\* spec.loader.exec_module(module) runs the next top-level statement
ExecStatement ==
    /\ nb.pc = "executing"
    /\ nbLoad = "ok"
    /\ nb.ip <= Len(script)
    /\ LET st == script[nb.ip]
       IN  IF st.op = "raise"
           THEN /\ nbOut' = Raised(st.arg)
                /\ nb' = NoFrame
                /\ UNCHANGED written
           ELSE /\ nb' = [nb EXCEPT !.ip = @ + 1,
                                    !.buffer = IF st.op = "print"
                                               THEN print_captured(@, st.arg)
                                               ELSE @]
                /\ written' = IF st.op = "print"
                              THEN written \o <<st.arg, "\n">>
                              ELSE written
                /\ UNCHANGED nbOut
    /\ UNCHANGED <<nbLoad, script, ui, fileVars, scanVars, renderVars>>

\* return buffer.getvalue()
ReturnOutput ==
    /\ nb.pc = "executing"
    /\ nbLoad = "ok"
    /\ nb.ip > Len(script)
    /\ nbOut' = [status |-> "returned", kind |-> "none", text |-> nb.buffer]
    /\ nb' = NoFrame
    /\ UNCHANGED <<nbLoad, script, written, ui, fileVars, scanVars,
                   renderVars>>

\* main: st.success and the output expander, or the except Exception
\* handler's st.error and st.info; an exception it does not catch leaves main
ShowResult ==
    /\ nbOut.status # "none"
    /\ ui = <<>>
    /\ ui' = IF nbOut.status = "returned"
             THEN <<[kind |-> "success",
                     text |-> <<"Notebook executed successfully!">>],
                    [kind |-> "output", text |-> nbOut.text]>>
             ELSE IF except_Exception(nbOut.kind)
             THEN <<[kind |-> "error",
                     text |-> <<"Error executing notebook: ">> \o nbOut.text],
                    [kind |-> "info",
                     text |-> <<"Make sure the notebook.py file contains valid Python code and required dependencies are installed.">>]>>
             ELSE <<[kind |-> "uncaught", text |-> <<nbOut.kind>>]>>
    /\ UNCHANGED <<nbLoad, script, nb, written, nbOut, fileVars, scanVars,
                   renderVars>>

NotebookNext ==
    \/ RunNotebook
    \/ LoadModule
    \/ ExecFails
    \/ ExecStatement
    \/ ReturnOutput
    \/ ShowResult

SpecNotebook == NotebookInit /\ [][NotebookNext]_vars

\* what the script's prints spell, statement by statement
RECURSIVE PrintedBy(_)
PrintedBy(sc) ==
    IF sc = <<>> THEN <<>>
    ELSE (IF Head(sc).op = "print" THEN <<Head(sc).arg, "\n">> ELSE <<>>)
         \o PrintedBy(Tail(sc))

\* C4: a script that runs to its end makes execute_notebook return exactly
\* what it wrote to standard output, in order ("hello\nworld\n" for the two
\* prints, "" for a script that prints nothing).
C4_ReturnsStdout ==
    nbOut.status = "returned" =>
        /\ nbOut.text = PrintedBy(script)
        /\ nbOut.text = written

\* print("hello") then print("world") returned "hello\nworld\n"
C4_Witness ==
    /\ nbOut.status = "returned"
    /\ script = <<[op |-> "print", arg |-> "hello"],
                  [op |-> "print", arg |-> "world"]>>
    /\ nbOut.text = <<"hello", "\n", "world", "\n">>

\* C5: every failed run of execute_notebook raises the one error kind,
\* whose message is the fixed prefix followed by the original description.
C5_OneErrorKind ==
    nbOut.status = "raised" =>
        /\ nbOut.kind = "Exception"
        /\ Len(nbOut.text) = 2
        /\ nbOut.text[1] = "Error executing notebook: "

\* the text is still held somewhere after the call: in the buffer, with
\* the error, or on the page
Retained(t) ==
    \/ nb.buffer = t
    \/ Contains(nbOut.text, t)
    \/ \E i \in 1..Len(ui) : Contains(ui[i].text, t)

\* C6: when the script printed and then raised an error that
\* execute_notebook wrapped, the output printed before the failure is
\* retained with the wrapped error.
C6_PartialOutputKept ==
    (nbOut.status = "raised" /\ nbOut.kind = "Exception" /\ written # <<>>)
        => Retained(written)

=============================================================================
